---- MODULE Spec2Model ----
(***************************************************************************)
(* Payment reconciliation core of the e-commerce backend: the STK push     *)
(* initiate operation (lnmo.py, LNMORepository.initiate_transaction), the  *)
(* callback endpoint (lnmo.py, payment_callback, with the request schema   *)
(* of pydantic_models.py) and the transaction ledger they write.           *)
(***************************************************************************)
EXTENDS Integers, Sequences, FiniteSets, TLC

(* ----------------------------- bounds ---------------------------------- *)
\* callback requests handled in one behaviour
MaxCallbacks == 2
\* how far the clock runs, in ticks
MaxClock == 5

(* --------------------------- optional values --------------------------- *)
\* Python's None and a present value, for Optional[...] fields and nullable columns
None == << >>
Some(v) == << v >>

(* ------------------------------ inputs --------------------------------- *)
\* the initiate requests of a behaviour, each handled once
Requests == {1, 2}
\* who asks to pay which order: user 1 for order 1, which is theirs, user 2 for
\* that order of user 1, and user 1 for order 2, which is in no order table
Callers == {[user_id |-> 1, order_id |-> 1], [user_id |-> 2, order_id |-> 1],
            [user_id |-> 1, order_id |-> 2]}
\* requested amounts, in cents (Decimal with two places): 2.50
Amounts == {250}
\* cents in a whole unit of the currency
CentsPerUnit == 100
\* amounts that pass the validation gt=0 with and without a whole part: 0.50, 2.50
FractionalAmounts == {50, 250}
\* int(d) of a positive Decimal d held in cents: the whole units, the fraction cut
int(d) == d \div CentsPerUnit
\* str(n) of an integer: its decimal digits
str(n) == [digits |-> n]
ResultCodes == {0, 1}
Receipt(v) == [name |-> "MpesaReceiptNumber", value |-> Some(v)]
Amount100 == [name |-> "Amount", value |-> Some("100")]
\* CallbackMetadata.item lists: without a receipt, with a receipt after another
\* item, and with two receipts of different values
ItemLists ==
    { << Amount100 >>, << Amount100, Receipt("R2") >>, << Receipt("R1"), Receipt("R2") >> }
StoreOutcomes == {"ok", "commit_fails", "refresh_fails"}

VARIABLES
    orders,        \* Orders table: order_id -> user_id of the owner
    transactions,  \* Transaction table: sequence of committed rows, id = index
    nextCid,       \* the gateway's next CheckoutRequestID
    req,           \* per initiate request: how far it is, and its outcome
    resp,          \* the callback endpoint's last request and its response
    ncb,           \* callback requests handled so far
    qry,           \* the status query request: how far it is, and its outcome
    oauth,         \* the token endpoint's last response
    clock,         \* the server's clock, in ticks
    payload,       \* the gateway request under construction
    delivered,     \* the identifiers whose callback the gateway has delivered
    products,      \* Products table: product id -> stock_quantity
    order_details, \* OrderDetails table: sequence of committed rows
    cart           \* per create_order request: how far it is, and its outcome

vars == << orders, transactions, nextCid, req, resp, ncb,
           qry, oauth, clock, payload, delivered, products, order_details, cart >>
\* what the initiate and callback operations never touch
aside == << qry, oauth, clock, payload, delivered, products, order_details, cart >>

(* --------------------- pydantic_models.py: callback schema ------------- *)
\* CallbackMetadataItem: name required, value optional
CallbackMetadataItem(raw) ==
    IF "name" \in DOMAIN raw
    THEN Some([name |-> raw.name,
               value |-> IF "value" \in DOMAIN raw THEN Some(raw.value) ELSE None])
    ELSE None

\* CallbackMetadata: item (a list of CallbackMetadataItem) required
CallbackMetadata(raw) ==
    IF "item" \in DOMAIN raw
    THEN LET items == [k \in 1..Len(raw.item) |-> CallbackMetadataItem(raw.item[k])]
         IN  IF \A k \in 1..Len(items) : items[k] # None
             THEN Some([item |-> [k \in 1..Len(items) |-> items[k][1]]])
             ELSE None
    ELSE None

\* StkCallback: merchantRequestID, checkoutRequestID, resultCode, resultDesc
\* required; callbackMetadata optional, None by default
StkCallback(raw) ==
    IF {"merchantRequestID", "checkoutRequestID", "resultCode", "resultDesc"}
          \subseteq DOMAIN raw
    THEN LET meta == IF "callbackMetadata" \in DOMAIN raw
                     THEN CallbackMetadata(raw.callbackMetadata) ELSE Some(None)
         IN  IF meta = None THEN None
             ELSE Some([merchantRequestID |-> raw.merchantRequestID,
                        checkoutRequestID |-> raw.checkoutRequestID,
                        resultCode |-> raw.resultCode,
                        resultDesc |-> raw.resultDesc,
                        callbackMetadata |->
                            IF "callbackMetadata" \in DOMAIN raw THEN meta ELSE None])
    ELSE None

\* CallbackBody: stkCallback required
CallbackBody(raw) ==
    IF "stkCallback" \in DOMAIN raw
    THEN LET stk == StkCallback(raw.stkCallback)
         IN  IF stk = None THEN None ELSE Some([stkCallback |-> stk[1]])
    ELSE None

\* CallbackRequest: body required. None stands for the validation error.
CallbackRequest(raw) ==
    IF "body" \in DOMAIN raw
    THEN LET body == CallbackBody(raw.body)
         IN  IF body = None THEN None ELSE Some([body |-> body[1]])
    ELSE None

(* ------------------------- request bodies ------------------------------ *)
\* The gateway's callback body (spec section 6): keys Body, stkCallback,
\* MerchantRequestID, CheckoutRequestID, ResultCode, ResultDesc and, when there
\* is metadata, CallbackMetadata.Item with entries keyed Name and Value.
GatewayItem(it) == [Name |-> it.name, Value |-> it.value[1]]
GatewayMetadata(items) == [Item |-> [k \in 1..Len(items) |-> GatewayItem(items[k])]]
GatewayStk(cid, rc) ==
    [MerchantRequestID |-> "m", CheckoutRequestID |-> cid,
     ResultCode |-> rc, ResultDesc |-> "d"]
GatewayBody(cid, rc, meta) ==
    [Body |-> [stkCallback |->
        IF meta = None THEN GatewayStk(cid, rc)
        ELSE [CallbackMetadata |-> GatewayMetadata(meta[1])] @@ GatewayStk(cid, rc)]]

\* The same content under the field names the request schema declares.
SchemaItem(it) == [name |-> it.name, value |-> it.value[1]]
SchemaMetadata(items) == [item |-> [k \in 1..Len(items) |-> SchemaItem(items[k])]]
SchemaStk(cid, rc) ==
    [merchantRequestID |-> "m", checkoutRequestID |-> cid,
     resultCode |-> rc, resultDesc |-> "d"]
SchemaBody(cid, rc, meta) ==
    [body |-> [stkCallback |->
        IF meta = None THEN SchemaStk(cid, rc)
        ELSE [callbackMetadata |-> SchemaMetadata(meta[1])] @@ SchemaStk(cid, rc)]]

Metas == {None} \cup {Some(l) : l \in ItemLists}

(* ------------------------- lnmo.py: callback --------------------------- *)
\* the lookup without its filter: the first row of the table, whatever its identifier
FirstTransaction_Unfiltered(txs, cid) == IF Len(txs) = 0 THEN 0 ELSE 1

\* db.query(Transaction).filter(transaction_id == cid).first(): the id of the
\* first row with that checkout-request identifier, 0 when there is none
FirstTransaction(txs, cid) ==
    LET hits == {i \in 1..Len(txs) : txs[i].transaction_id = Some(cid)}
    IN  IF hits = {} THEN 0 ELSE CHOOSE i \in hits : \A j \in hits : i <= j

\* hasattr(stkCallback, 'callbackMetadata'): the field is declared on the model
\* with a default, so the attribute exists whether or not the payload carried it
HasCallbackMetadata(stk) == "callbackMetadata" \in DOMAIN stk

\* the scan without its break: the last receipt item wins
RECURSIVE ScanReceipt_NoBreak(_, _, _)
ScanReceipt_NoBreak(items, k, code) ==
    IF k > Len(items) THEN code
    ELSE ScanReceipt_NoBreak(items, k + 1,
             IF items[k].name = "MpesaReceiptNumber" THEN items[k].value ELSE code)

\* the scan `for item in ...item: if item.name == "MpesaReceiptNumber": ... break`
\* started at position k with the row's transaction_code in `code`
RECURSIVE ScanReceipt(_, _, _)
ScanReceipt(items, k, code) ==
    IF k > Len(items) THEN code
    ELSE IF items[k].name = "MpesaReceiptNumber" THEN items[k].value
    ELSE ScanReceipt(items, k + 1, code)

\* TRUE when the handler body raises before it reaches db.commit(): with
\* ResultCode 0 the loop reads callbackMetadata.item, and callbackMetadata is None
CallbackRaises(stk) ==
    stk.resultCode = 0 /\ HasCallbackMetadata(stk) /\ stk.callbackMetadata = None

\* the update with a guard that takes a callback on a row that is no longer
\* PROCESSING for a failure
UpdatedRow_GuardedAsFailure(row, cb) ==
    LET stk == cb.body.stkCallback
    IN  IF stk.resultCode = 0 /\ row.status = "PROCESSING"
        THEN [row EXCEPT !.status = "ACCEPTED",
                         !.transaction_code =
                             IF HasCallbackMetadata(stk)
                             THEN ScanReceipt(stk.callbackMetadata[1].item, 1, @)
                             ELSE @,
                         !.feedback = cb]
        ELSE [row EXCEPT !.status = "REJECTED", !.feedback = cb]

\* the update with the feedback assignment inside the success branch
UpdatedRow_FeedbackOnSuccess(row, cb) ==
    LET stk == cb.body.stkCallback
    IN  IF stk.resultCode = 0
        THEN [row EXCEPT !.status = "ACCEPTED",
                         !.transaction_code =
                             IF HasCallbackMetadata(stk)
                             THEN ScanReceipt(stk.callbackMetadata[1].item, 1, @)
                             ELSE @,
                         !.feedback = cb]
        ELSE [row EXCEPT !.status = "REJECTED"]

\* the row as the handler leaves it in the session before db.commit()
UpdatedRow(row, cb) ==
    LET stk == cb.body.stkCallback
    IN  IF stk.resultCode = 0
        THEN [row EXCEPT !.status = "ACCEPTED",
                         !.transaction_code =
                             IF HasCallbackMetadata(stk)
                             THEN ScanReceipt(stk.callbackMetadata[1].item, 1, @)
                             ELSE @,
                         !.feedback = cb]
        ELSE [row EXCEPT !.status = "REJECTED", !.feedback = cb]

NotFoundAck == [status |-> "error", message |-> "Transaction not found"]
ProcessedAck == [status |-> "success", message |-> "Callback processed"]
FailedAck == [status |-> "error", message |-> "Callback processing failed"]

NoAck == [status |-> "", message |-> ""]

\* the handler without its except clause: the exception reaches the framework,
\* which answers 500 without an acknowledgement
CallbackExcept_Reraise(exc) == [http |-> 500, ack |-> NoAck]

\* what `except Exception` of the handler returns for an exception raised in it
CallbackExcept(exc) == [http |-> 200, ack |-> FailedAck]

\* payment_callback(callback_data, db) with the store answering `store`:
\* the ledger afterwards, the HTTP status and the acknowledgement returned
PaymentCallback(txs, cb, store) ==
    LET stk == cb.body.stkCallback
        i == FirstTransaction(txs, stk.checkoutRequestID)
    IN  IF i = 0
        THEN [txs |-> txs, row |-> 0, http |-> 200, ack |-> NotFoundAck]
        ELSE IF CallbackRaises(stk)
        THEN [txs |-> txs, row |-> i] @@ CallbackExcept("AttributeError")
        ELSE IF store = "commit_fails"
        THEN [txs |-> txs, row |-> i] @@ CallbackExcept("SQLAlchemyError")
        ELSE IF store = "refresh_fails"
        THEN [txs |-> [txs EXCEPT ![i] = UpdatedRow(@, cb)], row |-> i]
                 @@ CallbackExcept("SQLAlchemyError")
        ELSE [txs |-> [txs EXCEPT ![i] = UpdatedRow(@, cb)], row |-> i,
              http |-> 200, ack |-> ProcessedAck]

\* TRUE when the handler reaches db.commit(), so that the store's answer matters
ReachesCommit(txs, cb) ==
    /\ FirstTransaction(txs, cb.body.stkCallback.checkoutRequestID) # 0
    /\ ~CallbackRaises(cb.body.stkCallback)

NoCallback == [parsed |-> None, store |-> "ok", row |-> 0, http |-> 0,
               ack |-> NoAck, shape |-> "", rows |-> 0, again |-> FALSE]

\* TRUE when this request repeats the previous one on the ledger as that one left
\* it: the same parsed body, no row added since, and the previous one not undone
\* by a failed commit
Repeats(parsed) ==
    /\ resp.parsed = parsed
    /\ resp.rows = Len(transactions)
    /\ resp.store # "commit_fails"

\* POST /lnmo/callback: the body is validated against CallbackRequest (a body
\* that does not validate is answered 422 and never reaches the handler), then
\* payment_callback runs
callback(raw, shape, store) ==
    /\ ncb < MaxCallbacks
    /\ ncb' = ncb + 1
    /\ LET parsed == CallbackRequest(raw)
       IN  IF parsed = None
           THEN /\ store = "ok"
                /\ resp' = [parsed |-> None, store |-> store, row |-> 0, http |-> 422,
                            ack |-> NoAck, shape |-> shape,
                            rows |-> Len(transactions), again |-> FALSE]
                /\ UNCHANGED transactions
           ELSE LET r == PaymentCallback(transactions, parsed[1], store)
                IN  /\ (ReachesCommit(transactions, parsed[1]) \/ store = "ok")
                    /\ transactions' = r.txs
                    /\ resp' = [parsed |-> parsed, store |-> store, row |-> r.row,
                                http |-> r.http, ack |-> r.ack, shape |-> shape,
                                rows |-> Len(r.txs), again |-> Repeats(parsed)]
    /\ UNCHANGED << orders, nextCid, req >>

(* ------------------------- lnmo.py: initiate --------------------------- *)
\* db.query(Orders).filter(order_id == ..., user_id == user_id).first() finds a row
OrderOwnedBy(o, u) == o \in DOMAIN orders /\ orders[o] = u

\* response_data.get("CheckoutRequestID")
GetCheckoutRequestID(response_data) ==
    IF "CheckoutRequestID" \in DOMAIN response_data
    THEN Some(response_data.CheckoutRequestID) ELSE None

\* the row keyed by the order in place of the gateway's identifier
NewTransaction_KeyedByOrder(data, response_data, user_id) ==
    [pid |-> data.order_id,
     account_reference |-> data.order_id,
     transaction_id |-> Some(data.order_id),
     transaction_amount |-> data.amount,
     transaction_code |-> None,
     feedback |-> response_data,
     status |-> "PROCESSING",
     user_id |-> user_id]

\* the row with the amount cut to whole units, as it is sent to the gateway
NewTransaction_WholeAmount(data, response_data, user_id) ==
    [pid |-> data.order_id,
     account_reference |-> data.order_id,
     transaction_id |-> GetCheckoutRequestID(response_data),
     transaction_amount |-> int(data.amount) * CentsPerUnit,
     transaction_code |-> None,
     feedback |-> response_data,
     status |-> "PROCESSING",
     user_id |-> user_id]

\* the row created in the enum's first state, PENDING
NewTransaction_Pending(data, response_data, user_id) ==
    [pid |-> data.order_id,
     account_reference |-> data.order_id,
     transaction_id |-> GetCheckoutRequestID(response_data),
     transaction_amount |-> data.amount,
     transaction_code |-> None,
     feedback |-> response_data,
     status |-> "PENDING",
     user_id |-> user_id]

\* the Transaction(...) row initiate_transaction adds to the session
NewTransaction(data, response_data, user_id) ==
    [pid |-> data.order_id,
     account_reference |-> data.order_id,
     transaction_id |-> GetCheckoutRequestID(response_data),
     transaction_amount |-> data.amount,
     transaction_code |-> None,
     feedback |-> response_data,
     status |-> "PROCESSING",
     user_id |-> user_id]

\* the except clauses of initiate_transaction: a requests exception is answered
\* 500 "M-Pesa service unavailable"; every other Exception raised in the try
\* block, the HTTPException of the order check and of the token check included,
\* is answered 500 with the exception's text
InitiateExcept(exc) ==
    IF exc.type = "RequestException"
    THEN [http |-> 500, detail |-> "M-Pesa service unavailable"]
    ELSE [http |-> 500, detail |-> exc.detail]

OrderNotFound ==
    [type |-> "HTTPException", http |-> 404,
     detail |-> "Order not found or doesn't belong to user"]
TokenFailed ==
    [type |-> "HTTPException", http |-> 500,
     detail |-> "Failed to get M-Pesa access token"]
PushFailed == [type |-> "RequestException", http |-> 0, detail |-> "transport"]
StoreFailed == [type |-> "SQLAlchemyError", http |-> 0, detail |-> "store"]

NoData == [order_id |-> 0, amount |-> 0]
NoResponse == [none |-> TRUE]
NoResult == [http |-> 0, detail |-> "", transaction_id |-> 0, checkout_request_id |-> None]
\* tokens and pushes count the requests the handler has sent to the gateway's
\* token endpoint and to its push endpoint
Idle == [pc |-> "idle", user_id |-> 0, data |-> NoData, response_data |-> NoResponse,
         row |-> 0, tokens |-> 0, pushes |-> 0, result |-> NoResult]

\* the except clauses sending the request back to the token step for another try
Failed_Retry(c, exc) ==
    [req EXCEPT ![c].pc = "token",
                ![c].result = InitiateExcept(exc) @@
                    [transaction_id |-> 0, checkout_request_id |-> None]]

\* the requests after request c ended with the error response the except
\* clauses make of exc
Failed(c, exc) ==
    [req EXCEPT ![c].pc = "done",
                ![c].result = InitiateExcept(exc) @@
                    [transaction_id |-> 0, checkout_request_id |-> None]]

\* the request ends with the error response the except clauses make of exc
Fail(c, exc) == req' = Failed(c, exc)

\* POST /lnmo/transact by user u for order o: the order check of initiate_transaction
initiate_begin(c, u, o, a) ==
    /\ req[c].pc = "idle"
    /\ IF OrderOwnedBy(o, u)
       THEN req' = [req EXCEPT ![c] = [Idle EXCEPT !.pc = "token", !.user_id = u,
                                                   !.data = [order_id |-> o, amount |-> a]]]
       ELSE req' = [req EXCEPT ![c] = [Idle EXCEPT !.pc = "done", !.user_id = u,
                                                   !.data = [order_id |-> o, amount |-> a],
                                                   !.result = InitiateExcept(OrderNotFound) @@
                                                       [transaction_id |-> 0,
                                                        checkout_request_id |-> None]]]
    /\ UNCHANGED << orders, transactions, nextCid, resp, ncb >>

\* generate_access_token() returned a token or None
initiate_token(c, token) ==
    /\ req[c].pc = "token"
    /\ IF token
       THEN req' = [req EXCEPT ![c].pc = "push", ![c].tokens = @ + 1]
       ELSE req' = [Failed(c, TokenFailed) EXCEPT ![c].tokens = @ + 1]
    /\ UNCHANGED << orders, transactions, nextCid, resp, ncb >>

\* requests.post of the push and raise_for_status: a transport error or a non-2xx
\* answer raises; a 2xx answer carries a CheckoutRequestID ("accepted") or an error
\* payload without one ("error_payload")
initiate_push(c, answer) ==
    /\ req[c].pc = "push"
    /\ CASE answer = "failed" ->
                /\ req' = [Failed(c, PushFailed) EXCEPT ![c].pushes = @ + 1]
                /\ UNCHANGED nextCid
         [] answer = "accepted" ->
                /\ req' = [req EXCEPT ![c].pc = "commit", ![c].pushes = @ + 1,
                                      ![c].response_data = [CheckoutRequestID |-> nextCid]]
                /\ nextCid' = nextCid + 1
         [] answer = "error_payload" ->
                /\ req' = [req EXCEPT ![c].pc = "commit", ![c].pushes = @ + 1,
                                      ![c].response_data = [errorCode |-> "400.002.02"]]
                /\ UNCHANGED nextCid
    /\ UNCHANGED << orders, transactions, resp, ncb >>

\* db.add(transaction); db.commit()
initiate_commit(c, ok) ==
    /\ req[c].pc = "commit"
    /\ IF ok
       THEN /\ transactions' = Append(transactions,
                   NewTransaction(req[c].data, req[c].response_data, req[c].user_id))
            /\ req' = [req EXCEPT ![c].pc = "refresh", ![c].row = Len(transactions) + 1]
       ELSE /\ Fail(c, StoreFailed)
            /\ UNCHANGED transactions
    /\ UNCHANGED << orders, nextCid, resp, ncb >>

\* db.refresh(transaction) and the return of the success response
initiate_return(c, ok) ==
    /\ req[c].pc = "refresh"
    /\ IF ok
       THEN req' = [req EXCEPT ![c].pc = "done",
                       ![c].result = [http |-> 200, detail |-> "Transaction initiated successfully",
                                      transaction_id |-> req[c].row,
                                      checkout_request_id |->
                                          GetCheckoutRequestID(req[c].response_data)]]
       ELSE Fail(c, StoreFailed)
    /\ UNCHANGED << orders, transactions, nextCid, resp, ncb >>

(* -------------------- lnmo.py: password and timestamp ------------------ *)
\* the clock's resolution: datetime.now() is finer than the second of the format
TicksPerSecond == 2
MPESA_LNMO_SHORT_CODE == "174379"
MPESA_LNMO_PASS_KEY == "bfb279f9aa9bdbcf158e97dd71a467cd2e0c893059b10f78e6b72ada1ed2c919"

\* strftime("%Y%m%d%H%M%S") of the instant `now`: the second it lies in
strftime(now) == now \div TicksPerSecond

\* base64.b64encode(...).decode(): an encoding that loses nothing of its text
b64encode(text) == [b64 |-> text]

\* generate_password() called at the instant `now`: it reads the clock itself
generate_password(now) ==
    b64encode(<< MPESA_LNMO_SHORT_CODE, MPESA_LNMO_PASS_KEY, strftime(now) >>)

NoPayload == [pc |-> "none", kind |-> "", by |-> 0, Password |-> None, Timestamp |-> None,
              Amount |-> None]

\* time passes
tick ==
    /\ clock < MaxClock
    /\ clock' = clock + 1
    /\ UNCHANGED << orders, transactions, nextCid, req, resp, ncb,
                    qry, oauth, payload, delivered, products, order_details, cart >>

\* the handler `by` (an initiate request, or 0 for the status query) evaluates
\* the "Password" entry of its payload: self.generate_password()
payload_password(kind, by) ==
    /\ payload.pc = "none"
    /\ IF kind = "push" THEN by \in DOMAIN req /\ req[by].pc = "push"
                        ELSE by = 0 /\ qry.pc = "post"
    /\ payload' = [NoPayload EXCEPT !.pc = "password", !.kind = kind, !.by = by,
                                    !.Password = Some(generate_password(clock))]
    /\ UNCHANGED << orders, transactions, nextCid, req, resp, ncb,
                    qry, oauth, clock, delivered, products, order_details, cart >>

\* the handler evaluates the "Timestamp" entry, datetime.now().strftime(...),
\* and the entries after it: for a push, "Amount": str(int(data["Amount"]))
payload_timestamp ==
    /\ payload.pc = "password"
    /\ payload' = [payload EXCEPT
                       !.pc = "built",
                       !.Timestamp = Some(strftime(clock)),
                       !.Amount = IF payload.kind = "push"
                                  THEN Some(str(int(req[payload.by].data.amount)))
                                  ELSE None]
    /\ UNCHANGED << orders, transactions, nextCid, req, resp, ncb,
                    qry, oauth, clock, delivered, products, order_details, cart >>

\* the handler hands its payload to requests.post
payload_sent(kind, by) ==
    /\ payload.pc = "built" /\ payload.kind = kind /\ payload.by = by
    /\ payload' = NoPayload

(* ---------------------- lnmo.py: access token -------------------------- *)
\* responses of the token endpoint to requests.get: the transport raising, a
\* non-2xx answer, a 2xx answer without access_token, one with an empty
\* access_token, and one with a token
TokenResponses ==
    {[raised |-> TRUE, status |-> 0, json |-> [none |-> TRUE]],
     [raised |-> FALSE, status |-> 401, json |-> [errorMessage |-> "Invalid credentials"]],
     [raised |-> FALSE, status |-> 200, json |-> [errorMessage |-> "Bad request"]],
     [raised |-> FALSE, status |-> 200, json |-> [access_token |-> ""]],
     [raised |-> FALSE, status |-> 200, json |-> [access_token |-> "tok"]]}
NoTokenResponse == [raised |-> FALSE, status |-> 0, json |-> [none |-> TRUE]]

\* the function with an except clause that returns the text of a non-2xx answer
generate_access_token_ErrorText(response) ==
    IF response.raised
    THEN None
    ELSE IF response.status \notin 200..299
    THEN Some("error")
    ELSE IF "access_token" \in DOMAIN response.json
    THEN Some(response.json.access_token) ELSE None

\* generate_access_token(): requests.get, raise_for_status, .json().get(
\* "access_token"); every exception is answered None
generate_access_token(response) ==
    IF response.raised
    THEN None
    ELSE IF response.status \notin 200..299
    THEN None
    ELSE IF "access_token" \in DOMAIN response.json
    THEN Some(response.json.access_token) ELSE None

\* Python's truth value of an Optional[str]: `if not access_token` is taken for
\* None and for the empty string
Truthy(token) == token # None /\ token # Some("")

(* ------------------------ lnmo.py: status query ------------------------ *)
\* who asks for the status of a transaction: its owner and another user
QueryUsers == {1, 2}
\* answers of the query endpoint to requests.post: the transport raising or a
\* non-2xx answer ("failed"), or a 2xx answer with the gateway's ResultCode
QueryAnswers ==
    {[failed |-> TRUE, json |-> [none |-> TRUE]],
     [failed |-> FALSE, json |-> [ResultCode |-> 0]],
     [failed |-> FALSE, json |-> [ResultCode |-> 1032]]}

NoQueryResult == [http |-> 0, detail |-> "", data |-> [none |-> TRUE]]
\* tokens and calls count the requests the handler has sent to the gateway's
\* token endpoint and to its query endpoint
NoQuery == [pc |-> "idle", user_id |-> 0, cid |-> 0, rows |-> 0, tokens |-> 0,
            calls |-> 0, result |-> NoQueryResult]

\* the lookup without the user filter
FindTransaction_AnyUser(txs, cid, u) ==
    IF \E i \in 1..Len(txs) : txs[i].transaction_id = Some(cid)
    THEN CHOOSE i \in 1..Len(txs) :
             /\ txs[i].transaction_id = Some(cid)
             /\ \A j \in 1..(i - 1) : txs[j].transaction_id # Some(cid)
    ELSE 0

\* db.query(Transaction).filter(transaction_id == cid, user_id == u).first():
\* the position of the first such row, 0 for None
FindTransaction(txs, cid, u) ==
    IF \E i \in 1..Len(txs) : txs[i].transaction_id = Some(cid) /\ txs[i].user_id = u
    THEN CHOOSE i \in 1..Len(txs) :
             /\ txs[i].transaction_id = Some(cid) /\ txs[i].user_id = u
             /\ \A j \in 1..(i - 1) :
                    ~(txs[j].transaction_id = Some(cid) /\ txs[j].user_id = u)
    ELSE 0

TransactionNotFound ==
    [type |-> "HTTPException", http |-> 404, detail |-> "Transaction not found"]

\* the except clauses of the route and of query_transaction_status: the route
\* re-raises an HTTPException as it is; inside query_transaction_status a requests
\* exception is answered 500 "M-Pesa service unavailable" and every other
\* Exception, the HTTPException of the token check included, 500 with its text
QueryExcept(exc, inRepository) ==
    IF ~inRepository
    THEN [http |-> exc.http, detail |-> exc.detail]
    ELSE IF exc.type = "RequestException"
    THEN [http |-> 500, detail |-> "M-Pesa service unavailable"]
    ELSE [http |-> 500, detail |-> exc.detail]

\* the query ends with the error response the except clauses make of exc
QueryFail(exc, inRepository) ==
    [qry EXCEPT !.pc = "done",
                !.result = QueryExcept(exc, inRepository) @@ [data |-> [none |-> TRUE]]]

\* a query that copies the gateway's result code into the status of the row
QueryWrites_SyncStatus(txs, cid, response_data) ==
    [i \in 1..Len(txs) |->
        IF txs[i].transaction_id = Some(cid)
        THEN [txs[i] EXCEPT !.status =
                  IF response_data.ResultCode = 0 THEN "ACCEPTED" ELSE "REJECTED"]
        ELSE txs[i]]

\* the ledger after query_transaction_status(checkout_request_id, db) got the
\* gateway's answer: db is received and never added to, changed or committed
QueryWrites(txs, cid, response_data) == txs

\* POST /lnmo/query by user u for identifier cid: the ownership lookup of the route
query_begin(u, cid) ==
    /\ qry.pc = "idle"
    /\ LET q == [NoQuery EXCEPT !.user_id = u, !.cid = cid, !.rows = Len(transactions)]
       IN  IF FindTransaction(transactions, cid, u) = 0
           THEN qry' = [q EXCEPT !.pc = "done",
                                 !.result = QueryExcept(TransactionNotFound, FALSE)
                                                @@ [data |-> [none |-> TRUE]]]
           ELSE qry' = [q EXCEPT !.pc = "token"]
    /\ UNCHANGED << orders, transactions, nextCid, req, resp, ncb,
                    oauth, clock, payload, delivered, products, order_details, cart >>

\* generate_access_token() in query_transaction_status and the check of its result
query_token(response) ==
    /\ qry.pc = "token"
    /\ oauth' = response
    /\ IF Truthy(generate_access_token(response))
       THEN qry' = [qry EXCEPT !.pc = "post", !.tokens = @ + 1]
       ELSE qry' = [QueryFail(TokenFailed, TRUE) EXCEPT !.tokens = @ + 1]
    /\ UNCHANGED << orders, transactions, nextCid, req, resp, ncb,
                    clock, payload, delivered, products, order_details, cart >>

\* requests.post of the query, raise_for_status and the return of the answer
query_post(answer) ==
    /\ qry.pc = "post"
    /\ IF answer.failed
       THEN /\ qry' = [QueryFail(PushFailed, TRUE) EXCEPT !.calls = @ + 1]
            /\ UNCHANGED transactions
       ELSE /\ qry' = [qry EXCEPT !.pc = "done", !.calls = @ + 1,
                                  !.result = [http |-> 200,
                                              detail |-> "Transaction status retrieved",
                                              data |-> answer.json]]
            /\ transactions' = QueryWrites(transactions, qry.cid, answer.json)
    /\ UNCHANGED << orders, nextCid, req, resp, ncb, oauth, clock, delivered, products, order_details, cart >>

\* generate_access_token() in initiate_transaction and the check of its result
initiate_oauth(c, response) ==
    /\ initiate_token(c, Truthy(generate_access_token(response)))
    /\ oauth' = response
    /\ UNCHANGED << qry, clock, payload, delivered, products, order_details, cart >>

(* ------------------------ main.py: create_order ------------------------ *)
\* the create_order requests of a behaviour, each handled once
CartRequests == {1, 2}
\* units of product 1 in stock at the start
InitialStock == 2
CartItem(id, quantity) == [id |-> id, quantity |-> quantity]
\* carts: one unit, the whole stock, a unit and then a product that is in no
\* product table, a unit and then more than is left
Carts ==
    { << CartItem(1, 1) >>, << CartItem(1, 2) >>,
      << CartItem(1, 1), CartItem(2, 1) >>, << CartItem(1, 1), CartItem(1, 3) >> }

NoCartResult == [http |-> 0, detail |-> ""]
\* seen holds the products the session has loaded, with the stock the session
\* has for them; details holds the OrderDetails rows added and not yet committed
NoCart == [pc |-> "idle", user_id |-> 0, items |-> << >>, k |-> 0, order_id |-> 0,
           seen |-> << >>, details |-> << >>, result |-> NoCartResult]

\* db.rollback(): what the session has pending is dropped
Rollback(c) == [c EXCEPT !.seen = << >>, !.details = << >>]

\* the request ends with an HTTPException raised in the loop, after db.rollback()
CartRaise(c, http, detail) ==
    [Rollback(c) EXCEPT !.pc = "done", !.result = [http |-> http, detail |-> detail]]

\* `except SQLAlchemyError`: db.rollback() and 500
CartExcept(c) == CartRaise(c, 500, "store")

\* the order id the store gives the next Orders row
NextOrderId == Cardinality(DOMAIN orders) + 1

\* POST /create_order by user u: the Orders row is added, committed and
\* refreshed before the cart is looked at
create_order_begin(r, u, items, store) ==
    /\ cart[r].pc = "idle"
    /\ LET c == [NoCart EXCEPT !.user_id = u, !.items = items]
       IN  CASE store = "commit_fails" ->
                    /\ cart' = [cart EXCEPT ![r] = CartExcept(c)]
                    /\ UNCHANGED orders
             [] store = "refresh_fails" ->
                    /\ cart' = [cart EXCEPT ![r] =
                                   CartExcept([c EXCEPT !.order_id = NextOrderId])]
                    /\ orders' = orders @@ (NextOrderId :> u)
             [] store = "ok" ->
                    /\ cart' = [cart EXCEPT ![r] =
                                   [c EXCEPT !.pc = "loop", !.k = 1,
                                             !.order_id = NextOrderId]]
                    /\ orders' = orders @@ (NextOrderId :> u)
    /\ UNCHANGED << transactions, nextCid, req, resp, ncb,
                    qry, oauth, clock, payload, delivered, products, order_details >>

\* the stock the session reads for a product: the value it holds for a product
\* it has loaded before, the committed value otherwise
StockRead(c, id) == IF id \in DOMAIN c.seen THEN c.seen[id] ELSE products[id]

\* the stock the session holds after it took quantity from what it read
StockTaken(stock, quantity) == stock - quantity

\* one turn of the loop over the cart: the product lookup, the stock check, the
\* OrderDetails row and the decrement, all pending in the session
create_order_item(r) ==
    /\ cart[r].pc = "loop"
    /\ cart[r].k <= Len(cart[r].items)
    /\ LET c == cart[r]
           item == c.items[c.k]
       IN  IF item.id \notin DOMAIN products
           THEN cart' = [cart EXCEPT ![r] = CartRaise(c, 404, "Product not found")]
           ELSE IF StockRead(c, item.id) < item.quantity
           THEN cart' = [cart EXCEPT ![r] = CartRaise(c, 400, "Insufficient stock")]
           ELSE cart' = [cart EXCEPT ![r] =
                    [c EXCEPT !.k = @ + 1,
                              !.seen = (item.id :> StockTaken(StockRead(c, item.id),
                                                              item.quantity)) @@ @,
                              !.details = Append(@, [order_id |-> c.order_id,
                                                     product_id |-> item.id,
                                                     quantity |-> item.quantity])]]
    /\ UNCHANGED << orders, transactions, nextCid, req, resp, ncb,
                    qry, oauth, clock, payload, delivered, products, order_details >>

\* the Products table after the session's stock values are written to it
StockWritten(c) ==
    [p \in DOMAIN products |-> IF p \in DOMAIN c.seen THEN c.seen[p] ELSE products[p]]

\* new_order.total = total_cost; db.commit(): the pending rows and the stock
\* values the session computed are written, or the store raises
create_order_commit(r, ok) ==
    /\ cart[r].pc = "loop"
    /\ cart[r].k > Len(cart[r].items)
    /\ IF ok
       THEN /\ products' = StockWritten(cart[r])
            /\ order_details' = order_details \o cart[r].details
            /\ cart' = [cart EXCEPT ![r] =
                           [Rollback(@) EXCEPT !.pc = "done",
                                !.result = [http |-> 201,
                                            detail |-> "Order created successfully"]]]
       ELSE /\ cart' = [cart EXCEPT ![r] = CartExcept(@)]
            /\ UNCHANGED << products, order_details >>
    /\ UNCHANGED << orders, transactions, nextCid, req, resp, ncb,
                    qry, oauth, clock, payload, delivered >>

(* --------------------------- specification ----------------------------- *)
\* order 1 exists, owned by user 1
Init ==
    /\ orders = [o \in {1} |-> 1]
    /\ transactions = << >>
    /\ nextCid = 1
    /\ req = [c \in Requests |-> Idle]
    /\ resp = NoCallback
    /\ ncb = 0
    /\ qry = NoQuery
    /\ oauth = NoTokenResponse
    /\ clock = 0
    /\ payload = NoPayload
    /\ delivered = {}
    /\ products = [p \in {1} |-> InitialStock]
    /\ order_details = << >>
    /\ cart = [r \in CartRequests |-> NoCart]

\* a callback names an identifier the gateway has issued or the next, unissued one
CheckoutIds == 1..nextCid

\* callback contents: a success with each metadata, a failure without metadata
\* (as the gateway sends it) and one with
Contents ==
    {[rc |-> 0, meta |-> m] : m \in Metas}
        \cup {[rc |-> rc, meta |-> m] : rc \in ResultCodes \ {0},
                                        m \in {None, Some(<< Receipt("R1"), Receipt("R2") >>)}}

Next ==
    \/ \E c \in DOMAIN req, who \in Callers, a \in Amounts :
           /\ \A d \in DOMAIN req : d < c => req[d].pc = "done"
           /\ initiate_begin(c, who.user_id, who.order_id, a)
           /\ UNCHANGED aside
    \/ \E c \in DOMAIN req, token \in BOOLEAN :
           initiate_token(c, token) /\ UNCHANGED aside
    \/ \E c \in DOMAIN req, answer \in {"failed", "accepted", "error_payload"} :
           initiate_push(c, answer) /\ UNCHANGED aside
    \/ \E c \in DOMAIN req, ok \in BOOLEAN : initiate_commit(c, ok) /\ UNCHANGED aside
    \/ \E c \in DOMAIN req, ok \in BOOLEAN : initiate_return(c, ok) /\ UNCHANGED aside
    \/ \E cid \in CheckoutIds, x \in Contents, store \in StoreOutcomes :
           callback(SchemaBody(cid, x.rc, x.meta), "schema", store) /\ UNCHANGED aside
    \/ \E cid \in CheckoutIds, meta \in {None, Some(<< Receipt("R1"), Receipt("R2") >>)} :
           callback(GatewayBody(cid, 0, meta), "gateway", "ok") /\ UNCHANGED aside

Spec == Init /\ [][Next]_vars

\* callback contents as the gateway sends them: a success with its metadata, a
\* failure without
PlainContents ==
    {[rc |-> 0, meta |-> Some(<< Receipt("R1"), Receipt("R2") >>)],
     [rc |-> 1, meta |-> None]}

\* the status query beside the initiate requests of the owner and the callbacks
\* for their identifiers, the store answering every call of the callback handler
NextQuery ==
    \/ \E c \in DOMAIN req, a \in Amounts :
           /\ \A d \in DOMAIN req : d < c => req[d].pc = "done"
           /\ initiate_begin(c, 1, 1, a)
           /\ UNCHANGED aside
    \/ \E c \in DOMAIN req, response \in TokenResponses : initiate_oauth(c, response)
    \/ \E c \in DOMAIN req, answer \in {"failed", "accepted"} :
           initiate_push(c, answer) /\ UNCHANGED aside
    \/ \E c \in DOMAIN req, ok \in BOOLEAN : initiate_commit(c, ok) /\ UNCHANGED aside
    \/ \E c \in DOMAIN req, ok \in BOOLEAN : initiate_return(c, ok) /\ UNCHANGED aside
    \/ \E cid \in CheckoutIds, x \in PlainContents :
           callback(SchemaBody(cid, x.rc, x.meta), "schema", "ok") /\ UNCHANGED aside
    \/ \E u \in QueryUsers, cid \in CheckoutIds : query_begin(u, cid)
    \/ \E response \in TokenResponses : query_token(response)
    \/ \E answer \in QueryAnswers : query_post(answer) /\ UNCHANGED payload

SpecQuery == Init /\ [][NextQuery]_vars

\* the construction of the push and query payloads while the clock runs
NextClock ==
    \/ tick
    \/ \E c \in DOMAIN req, a \in Amounts :
           /\ \A d \in DOMAIN req : d < c => req[d].pc = "done"
           /\ initiate_begin(c, 1, 1, a)
           /\ UNCHANGED aside
    \/ \E c \in DOMAIN req, token \in BOOLEAN :
           initiate_token(c, token) /\ UNCHANGED aside
    \/ \E c \in DOMAIN req : payload_password("push", c)
    \/ payload_password("query", 0)
    \/ payload_timestamp
    \/ \E c \in DOMAIN req, answer \in {"failed", "accepted"} :
           /\ initiate_push(c, answer)
           /\ payload_sent("push", c)
           /\ UNCHANGED << qry, oauth, clock, delivered, products, order_details, cart >>
    \/ \E c \in DOMAIN req, ok \in BOOLEAN : initiate_commit(c, ok) /\ UNCHANGED aside
    \/ \E c \in DOMAIN req, ok \in BOOLEAN : initiate_return(c, ok) /\ UNCHANGED aside
    \/ \E cid \in CheckoutIds : query_begin(1, cid)
    \/ \E response \in TokenResponses : query_token(response)
    \/ \E answer \in QueryAnswers : query_post(answer) /\ payload_sent("query", 0)

SpecClock == Init /\ [][NextClock]_vars

\* the gateway delivers the callback of an identifier it has issued, once, to a
\* healthy store
deliver(cid, x) ==
    /\ cid < nextCid
    /\ cid \notin delivered
    /\ callback(SchemaBody(cid, x.rc, x.meta), "schema", "ok")
    /\ delivered' = delivered \cup {cid}
    /\ UNCHANGED << qry, oauth, clock, payload, products, order_details, cart >>

\* two initiate requests of the owner for the same order, interleaved in every
\* way with each other and with the callbacks of their pushes
NextRace ==
    \/ \E c \in DOMAIN req, a \in Amounts : initiate_begin(c, 1, 1, a) /\ UNCHANGED aside
    \/ \E c \in DOMAIN req, token \in BOOLEAN :
           initiate_token(c, token) /\ UNCHANGED aside
    \/ \E c \in DOMAIN req, answer \in {"failed", "accepted"} :
           initiate_push(c, answer) /\ UNCHANGED aside
    \/ \E c \in DOMAIN req, ok \in BOOLEAN : initiate_commit(c, ok) /\ UNCHANGED aside
    \/ \E c \in DOMAIN req, ok \in BOOLEAN : initiate_return(c, ok) /\ UNCHANGED aside
    \/ \E cid \in CheckoutIds, x \in PlainContents : deliver(cid, x)

SpecRace == Init /\ [][NextRace]_vars

\* callback contents that carry an amount of their own, and a failure
AmountContents ==
    {[rc |-> 0, meta |-> Some(<< Amount100, Receipt("R2") >>)],
     [rc |-> 1, meta |-> None]}

\* initiate requests of the owner for amounts with a fraction, their push payloads
\* and the callbacks of their pushes
NextAmount ==
    \/ \E c \in DOMAIN req, a \in FractionalAmounts :
           /\ \A d \in DOMAIN req : d < c => req[d].pc = "done"
           /\ initiate_begin(c, 1, 1, a)
           /\ UNCHANGED aside
    \/ \E c \in DOMAIN req, token \in BOOLEAN :
           initiate_token(c, token) /\ UNCHANGED aside
    \/ \E c \in DOMAIN req : payload_password("push", c)
    \/ payload_timestamp
    \/ \E c \in DOMAIN req, answer \in {"failed", "accepted"} :
           /\ initiate_push(c, answer)
           /\ payload_sent("push", c)
           /\ UNCHANGED << qry, oauth, clock, delivered, products, order_details, cart >>
    \/ \E c \in DOMAIN req, ok \in BOOLEAN : initiate_commit(c, ok) /\ UNCHANGED aside
    \/ \E c \in DOMAIN req, ok \in BOOLEAN : initiate_return(c, ok) /\ UNCHANGED aside
    \/ \E cid \in CheckoutIds, x \in AmountContents : deliver(cid, x)

SpecAmount == Init /\ [][NextAmount]_vars

\* two create_order requests, interleaved in every way
NextOrder ==
    \/ \E r \in DOMAIN cart, items \in Carts, store \in StoreOutcomes :
           create_order_begin(r, 1, items, store)
    \/ \E r \in DOMAIN cart : create_order_item(r)
    \/ \E r \in DOMAIN cart, ok \in BOOLEAN : create_order_commit(r, ok)

SpecOrder == Init /\ [][NextOrder]_vars

\* a callback that gives back the stock of the order whose payment was rejected
StockAfterCallback_Restock(stock, details, row) ==
    [p \in DOMAIN stock |->
        IF row.status = "REJECTED" /\ \E k \in 1..Len(details) :
               details[k].order_id = row.pid /\ details[k].product_id = p
        THEN stock[p] + 1
        ELSE stock[p]]

\* the Products table after payment_callback updated `row`: the handler assigns
\* the transaction's status, code and feedback and nothing of a product
StockAfterCallback(stock, details, row) == stock

\* the gateway posts a callback while orders are created and paid
settle(cid, x) ==
    /\ callback(SchemaBody(cid, x.rc, x.meta), "schema", "ok")
    /\ products' = IF resp'.row = 0
                   THEN products
                   ELSE StockAfterCallback(products, order_details,
                                           transactions'[resp'.row])
    /\ UNCHANGED << qry, oauth, clock, payload, delivered, order_details, cart >>

\* a create_order request, an initiate request of the user for one of the orders
\* there are, and the callbacks of its push
NextShop ==
    \/ \E items \in Carts, store \in StoreOutcomes : create_order_begin(1, 1, items, store)
    \/ create_order_item(1)
    \/ \E ok \in BOOLEAN : create_order_commit(1, ok)
    \/ \E o \in DOMAIN orders, a \in Amounts : initiate_begin(1, 1, o, a) /\ UNCHANGED aside
    \/ \E token \in BOOLEAN : initiate_token(1, token) /\ UNCHANGED aside
    \/ \E answer \in {"failed", "accepted"} : initiate_push(1, answer) /\ UNCHANGED aside
    \/ \E ok \in BOOLEAN : initiate_commit(1, ok) /\ UNCHANGED aside
    \/ \E ok \in BOOLEAN : initiate_return(1, ok) /\ UNCHANGED aside
    \/ \E cid \in CheckoutIds, x \in PlainContents : settle(cid, x)

SpecShop == Init /\ [][NextShop]_vars

(* ------------------------------ claims --------------------------------- *)
\* the last callback request was parsed and handed to payment_callback
Handled == resp.parsed # None
\* the parsed stkCallback of the last callback request
LastStk == resp.parsed[1].body.stkCallback
\* the positions of the receipt items in an item list
ReceiptAt(items) == {k \in 1..Len(items) : items[k].name = "MpesaReceiptNumber"}
\* the rows whose checkout-request identifier is cid
RowsOf(txs, cid) == {i \in 1..Len(txs) : txs[i].transaction_id = Some(cid)}
\* this step is a callback request
CallbackStep == ncb' = ncb + 1

\* C1: after a callback that matches a row, the persisted status of the row is
\* ACCEPTED when ResultCode is 0 and REJECTED when it is not, with or without
\* CallbackMetadata. Stated for a store that answers every call, so that only the
\* handler decides it.
C1_StatusFollowsResultCode ==
    (Handled /\ resp.row # 0 /\ resp.store = "ok") =>
        transactions[resp.row].status =
            IF LastStk.resultCode = 0 THEN "ACCEPTED" ELSE "REJECTED"

\* C2: a status changes only from PROCESSING to ACCEPTED or REJECTED; an ACCEPTED
\* or REJECTED row keeps its status for ever.
C2_TerminalStatusIsFinal ==
    [][\A i \in 1..Len(transactions) :
          transactions'[i].status # transactions[i].status =>
              /\ transactions[i].status = "PROCESSING"
              /\ transactions'[i].status \in {"ACCEPTED", "REJECTED"}]_vars

\* C3: for each order at most one row that references it is ACCEPTED.
C3_OneAcceptedPerOrder ==
    \A i, j \in 1..Len(transactions) :
        (/\ transactions[i].pid = transactions[j].pid
         /\ transactions[i].status = "ACCEPTED"
         /\ transactions[j].status = "ACCEPTED") => i = j

\* the gateway accepted the push of request c: its answer carries an identifier
PushAccepted(c) == "CheckoutRequestID" \in DOMAIN req[c].response_data

\* the rows that carry the identifier the gateway gave request c, the caller's
\* user id and the order id as reference
RowsFor(c) ==
    {i \in 1..Len(transactions) :
        /\ transactions[i].transaction_id = Some(req[c].response_data.CheckoutRequestID)
        /\ transactions[i].user_id = req[c].user_id
        /\ transactions[i].pid = req[c].data.order_id
        /\ transactions[i].account_reference = req[c].data.order_id}

C5_OrderNotFoundIs404 ==
    \A c \in DOMAIN req :
        (req[c].pc = "done" /\ ~OrderOwnedBy(req[c].data.order_id, req[c].user_id)) =>
            /\ req[c].result.http = 404
            /\ req[c].pushes = 0
            /\ req[c].row = 0

\* C6: a callback whose identifier is on no row is answered 200 with
\* {status: "error", message: "Transaction not found"} and changes no row.
C6_MissChangesNothing ==
    [][(CallbackStep /\ resp'.parsed # None
          /\ RowsOf(transactions, resp'.parsed[1].body.stkCallback.checkoutRequestID) = {})
       => (/\ resp'.http = 200
           /\ resp'.ack = [status |-> "error", message |-> "Transaction not found"]
           /\ transactions' = transactions)]_vars
\* a callback missed while the ledger held a row
C6_Witness ==
    /\ Handled /\ resp.row = 0 /\ resp.ack.message = "Transaction not found"
    /\ Len(transactions) > 0

\* the transaction code C7 prescribes for a row whose code was `code`
FirstReceipt(items, code) ==
    IF ReceiptAt(items) = {} THEN code
    ELSE items[CHOOSE k \in ReceiptAt(items) : \A j \in ReceiptAt(items) : k <= j].value

\* a step that handles a success callback with an item list on a matching row
SuccessWithItems ==
    /\ CallbackStep /\ resp'.parsed # None /\ resp'.row # 0
    /\ resp'.parsed[1].body.stkCallback.resultCode = 0
    /\ resp'.parsed[1].body.stkCallback.callbackMetadata # None

C8_RepeatedCallbackChangesNothing ==
    [][(/\ CallbackStep /\ resp'.parsed # None
        /\ resp'.parsed = resp.parsed
        /\ resp.rows = Len(transactions)
        /\ resp.store # "commit_fails")
       => transactions' = transactions]_vars
\* the same success callback committed twice in a row on a matching row
C8_Witness ==
    /\ resp.again /\ resp.row # 0 /\ resp.store = "ok" /\ resp.ack.status = "success"
    /\ LastStk.resultCode = 0
    /\ transactions[resp.row].transaction_code # None

\* C9: every callback request that reaches the handler is answered 200 with an
\* acknowledgement {status, message}, whatever happens in the handler.
C9_AlwaysAcknowledged ==
    Handled =>
        /\ resp.http = 200
        /\ resp.ack \in {[status |-> "success", message |-> "Callback processed"],
                         [status |-> "error", message |-> "Transaction not found"],
                         [status |-> "error", message |-> "Callback processing failed"]}
\* a callback whose commit failed was acknowledged
C9_Witness ==
    /\ Handled /\ resp.row # 0 /\ resp.store = "commit_fails"
    /\ resp.http = 200 /\ resp.ack.status = "error"

\* C10: a callback body in the gateway's shape passes the request schema and
\* reaches the handler.
C10_GatewayShapeReachesHandler ==
    resp.shape = "gateway" => (resp.http # 422 /\ Handled)

\* C12: an initiate that has ended has either a persisted row together with the
\* success response, or no row and an error response; and a row is persisted only
\* after the gateway answered the push (a request that holds a row has pushed).
C12_NoPartialSuccess ==
    \A c \in DOMAIN req :
        /\ req[c].pc = "done" =>
               \/ req[c].row # 0 /\ req[c].result.http = 200
               \/ req[c].row = 0 /\ req[c].result.http # 200
        /\ req[c].row # 0 => req[c].pushes = 1

\* C15: every row of the ledger has a checkout-request identifier.
C15_RowsHaveCheckoutId ==
    \A i \in 1..Len(transactions) : transactions[i].transaction_id # None

\* C16: a row whose transaction code is set is ACCEPTED.
C16_CodeOnlyOnAccepted ==
    \A i \in 1..Len(transactions) :
        transactions[i].transaction_code # None => transactions[i].status = "ACCEPTED"

\* C19: after a matched callback that the handler processed, the row's feedback
\* is the callback payload and no longer the gateway's answer to the push, for a
\* success and for a failure alike.
C19_FeedbackIsCallback ==
    (Handled /\ resp.row # 0 /\ resp.ack.message = "Callback processed") =>
        /\ transactions[resp.row].feedback = resp.parsed[1]
        /\ "CheckoutRequestID" \notin DOMAIN transactions[resp.row].feedback
\* a failure callback was processed on a matching row
C19_Witness ==
    /\ Handled /\ resp.row # 0 /\ resp.ack.message = "Callback processed"
    /\ LastStk.resultCode # 0
    /\ transactions[resp.row].feedback = resp.parsed[1]

\* the rows that carry identifier cid and belong to user u
RowsOfUser(txs, cid, u) == {i \in RowsOf(txs, cid) : txs[i].user_id = u}
\* this step is the ownership lookup of a status query
QueryBegins == qry.pc = "idle" /\ qry'.pc # "idle"

NoToken(response) ==
    \/ response.raised
    \/ response.status < 200
    \/ response.status > 299
    \/ "access_token" \notin DOMAIN response.json

QueryStep == qry' # qry

\* C20: every step of a status query, whatever its outcome and whatever callbacks
\* were handled before it or between its steps, leaves every row as it was.
C20_QueryChangesNoRow ==
    [][QueryStep => transactions' = transactions]_vars
\* the gateway answered a query for a row that a callback had already settled
\* while the query was under way
C20_Witness ==
    /\ qry.pc = "done" /\ qry.result.http = 200 /\ qry.calls = 1
    /\ Handled /\ resp.row # 0 /\ LastStk.checkoutRequestID = qry.cid
    /\ transactions[resp.row].status = "ACCEPTED"
    /\ qry.result.data.ResultCode # 0

\* C13: in every push request and every status-query request the timestamp
\* encoded in Password is the Timestamp field of the same payload, however the
\* clock ticks while the payload is built.
C13_PasswordMatchesTimestamp ==
    payload.pc = "built" =>
        payload.Password =
            Some(b64encode(<< MPESA_LNMO_SHORT_CODE, MPESA_LNMO_PASS_KEY,
                              payload.Timestamp[1] >>))

\* initiate request c succeeded and the gateway has delivered the callback of
\* its push
SucceededAndDelivered(c) ==
    /\ req[c].pc = "done" /\ req[c].result.http = 200
    /\ PushAccepted(c)
    /\ req[c].response_data.CheckoutRequestID \in delivered

\* C17: no transaction stays stuck: once an initiate whose push the gateway
\* accepted has succeeded and the gateway has delivered the callback of that
\* push, once, before or after the commit of the row, the row is ACCEPTED or
\* REJECTED.
C17_DeliveredCallbackSettles ==
    \A c \in DOMAIN req :
        SucceededAndDelivered(c) =>
            transactions[req[c].row].status \in {"ACCEPTED", "REJECTED"}

\* both initiate requests ended with the success response
BothSucceeded == \A c \in DOMAIN req : req[c].pc = "done" /\ req[c].result.http = 200
\* the gateway accepted the push of both requests, which have ended
BothAccepted == \A c \in DOMAIN req : req[c].pc = "done" /\ PushAccepted(c)
\* each request has its own row, under its own identifier, PROCESSING until the
\* callback of that identifier is delivered
TwoIndependentRows ==
    \A c, d \in DOMAIN req :
        /\ req[c].row \in 1..Len(transactions)
        /\ c # d => req[c].row # req[d].row
        /\ c # d => req[c].response_data.CheckoutRequestID
                        # req[d].response_data.CheckoutRequestID
        /\ LET row == transactions[req[c].row]
               cid == req[c].response_data.CheckoutRequestID
           IN  /\ row.transaction_id = Some(cid)
               /\ req[c].result.checkout_request_id = Some(cid)
               /\ req[c].result.transaction_id = req[c].row
               /\ row.pid = req[c].data.order_id
               /\ row.user_id = req[c].user_id
               /\ cid \notin delivered => row.status = "PROCESSING"
\* a callback step changes no row but one that carries the callback's identifier
CallbackChangesOwnRow ==
    CallbackStep =>
        /\ Len(transactions') = Len(transactions)
        /\ \A i \in 1..Len(transactions) :
               transactions'[i] # transactions[i] =>
                   /\ resp'.parsed # None
                   /\ transactions[i].transaction_id =
                          Some(resp'.parsed[1].body.stkCallback.checkoutRequestID)

InitiateCalls(c) == req[c].tokens + req[c].pushes
\* the requests the status query has sent to the gateway
QueryCalls == qry.tokens + qry.calls

\* C23 as stated: initiate, query and callback each send at most one request to
\* the gateway within a request/response cycle.
C23_AtMostOneGatewayCall ==
    [][/\ \A c \in DOMAIN req : InitiateCalls(c)' <= 1
       /\ QueryCalls' <= 1
       /\ CallbackStep => (req' = req /\ qry' = qry)]_vars
\* C23, counting the token request: initiate sends at most one token request and
\* at most one push, the status query at most one token request and at most one
\* query, and the callback handler sends nothing.
C23_OneTokenOnePayment ==
    [][/\ \A c \in DOMAIN req : req'[c].tokens <= 1 /\ req'[c].pushes <= 1
       /\ qry'.tokens <= 1 /\ qry'.calls <= 1
       /\ CallbackStep => (req' = req /\ qry' = qry)]_vars
\* an initiate and a status query have each sent their token request and their
\* payment request, and a callback has been handled
C23_Witness ==
    /\ \E c \in DOMAIN req : req[c].pc = "done" /\ InitiateCalls(c) = 2
    /\ qry.pc = "done" /\ QueryCalls = 2
    /\ Handled

\* C22: the amount of a row is the amount of the initiate request that created
\* it, fraction included, whatever the gateway answered and whatever callbacks
\* were applied to the row since.
C22_AmountIsRequested ==
    \A c \in DOMAIN req :
        req[c].row # 0 =>
            transactions[req[c].row].transaction_amount = req[c].data.amount
\* a row for 0.50 was settled by a callback whose metadata names another amount
C22_Witness ==
    /\ Handled /\ resp.row # 0 /\ LastStk.resultCode = 0
    /\ LastStk.callbackMetadata # None
    /\ \E k \in 1..Len(LastStk.callbackMetadata[1].item) :
           LastStk.callbackMetadata[1].item[k].name = "Amount"
    /\ transactions[resp.row].status = "ACCEPTED"
    /\ transactions[resp.row].transaction_amount = 50
    /\ \E c \in DOMAIN req : req[c].row = resp.row /\ req[c].data.amount = 50

\* this step is the push of request c being sent
PushSent(c) == req[c].pc = "push" /\ req'[c].pc # "push"

\* C26: the Amount of every push sent is the requested amount cut to whole
\* units and is at least 1.
C26_PushAmountAtLeastOne ==
    [][\A c \in DOMAIN req :
          PushSent(c) =>
              \E n \in 1..req[c].data.amount :
                  /\ payload.Amount = Some([digits |-> n])
                  /\ n * CentsPerUnit <= req[c].data.amount
                  /\ req[c].data.amount < (n + 1) * CentsPerUnit]_vars

\* the quantity of product p in the rows k.. of an OrderDetails table
RECURSIVE Reserved(_, _, _)
Reserved(details, k, p) ==
    IF k > Len(details)
    THEN 0
    ELSE (IF details[k].product_id = p THEN details[k].quantity ELSE 0)
             + Reserved(details, k + 1, p)

\* C24: in every reachable state, for every product, the stock is not negative
\* and the stock at the start is the stock now plus the quantities of the
\* committed order details.
C24_StockConserved ==
    \A p \in DOMAIN products :
        /\ products[p] >= 0
        /\ InitialStock = products[p] + Reserved(order_details, 1, p)

\* C25: a create_order request that failed on a missing product or on
\* insufficient stock has left no order row and no order-detail row.
C25_FailedOrderLeavesNothing ==
    \A r \in DOMAIN cart :
        (cart[r].pc = "done" /\ cart[r].result.http \in {400, 404}) =>
            /\ cart[r].order_id \notin DOMAIN orders
            /\ \A k \in 1..Len(order_details) :
                   order_details[k].order_id # cart[r].order_id

\* this step belongs to an initiate request
InitiateStep == req' # req
\* this step belongs to a create_order request
CreateOrderStep == cart' # cart

====
